---- MODULE Spec2Model ----
(***************************************************************************)
(* A model of pyOlog: the domain types of OlogDataTypes.py, the JSON       *)
(* encoders/decoders and the OlogClient facade of OlogClient.py.           *)
(*                                                                         *)
(* Python values are represented as follows.                               *)
(*   str            a sequence of one-character strings, <<"a", " ">>      *)
(*   None / value   an option: None == <<>>, Some(v) == <<v>>              *)
(*   list           a sequence                                             *)
(*   dict (JSON)    a record; a missing key is a missing field             *)
(*   exception      Raise(kind); a normal return is Ok(value)              *)
(***************************************************************************)
EXTENDS Integers, Sequences, FiniteSets, TLC

VARIABLES
    conf,       \* the DEFAULT section of the configuration (_conf)
    env,        \* the OS credential store and the terminal (environment)
    server,     \* what the remote Olog service holds
    client,     \* the OlogClient object, once constructed (with how it was)
    entry,      \* the LogEntry(...) construction not yet submitted, if any
    op          \* the last client operation: its calls and its outcome

vars == <<conf, env, server, client, entry, op>>

-----------------------------------------------------------------------------
(* Bounds of the model. *)

MaxTextLen == 2
MaxConfLen == 2
MaxLogbooks == 2
MaxAttachments == 2
MaxOps == 2
MaxCriteria == 2
MaxFound == 2

-----------------------------------------------------------------------------
(* Python values. *)

None == <<>>
Some(v) == <<v>>
Ok(v) == [ok |-> TRUE, val |-> v]
Raise(e) == [ok |-> FALSE, err |-> e]

Opt(S) == {None} \cup {Some(v) : v \in S}

SeqsUpTo(S, n) == UNION {[1..k -> S] : k \in 0..n}

\* string.whitespace and string.printable, cut down to the alphabet used here;
\* "BEL" stands for a character that is not printable.
Whitespace == {" "}
Printable == {"a", "b", ",", " ", "N", "o", "n", "e"}
TextChars == {"a", " ", "BEL"}

RECURSIVE LStrip(_)
LStrip(s) == IF s # <<>> /\ Head(s) \in Whitespace THEN LStrip(Tail(s)) ELSE s

RECURSIVE RStrip(_)
RStrip(s) ==
    IF s # <<>> /\ s[Len(s)] \in Whitespace
    THEN RStrip(SubSeq(s, 1, Len(s) - 1))
    ELSE s

\* str.strip()
Strip(s) == RStrip(LStrip(s))

\* ''.join(c for c in text if c in string.printable)
RECURSIVE FilterPrintable(_)
FilterPrintable(s) ==
    IF s = <<>> THEN <<>>
    ELSE IF Head(s) \in Printable
         THEN <<Head(s)>> \o FilterPrintable(Tail(s))
         ELSE FilterPrintable(Tail(s))

\* str.split(sep): always at least one piece
RECURSIVE Split(_, _)
Split(s, sep) ==
    IF \A i \in 1..Len(s) : s[i] # sep THEN <<s>>
    ELSE LET i == CHOOSE k \in 1..Len(s) :
                      s[k] = sep /\ \A j \in 1..(k - 1) : s[j] # sep
         IN  <<SubSeq(s, 1, i - 1)>> \o Split(SubSeq(s, i + 1, Len(s)), sep)

\* str(i) for a non-negative int
DigitChar(d) == <<"0", "1", "2", "3", "4", "5", "6", "7", "8", "9">>[d + 1]

RECURSIVE IntStr(_)
IntStr(i) == IF i < 10 THEN <<DigitChar(i)>>
             ELSE IntStr(i \div 10) \o <<DigitChar(i % 10)>>

\* str(x) where x is None or a str
StrOpt(o) == IF o = None THEN <<"N", "o", "n", "e">> ELSE o[1]

\* a Python scalar that is a str, [s |-> ...], or an int, [i |-> ...]
PyStr(v) == IF "i" \in DOMAIN v THEN IntStr(v.i) ELSE v.s

-----------------------------------------------------------------------------
(* The configuration singleton. *)

\* ConfigParser.has_option('DEFAULT', arg) / .get('DEFAULT', arg)
has_option(arg) == conf[arg] # None
get(arg) == conf[arg][1]

\* _conf.getValue(arg, value=None): the configured default when the value is
\* omitted
getValue(arg, value) ==
    IF value = None
    THEN IF has_option(arg) THEN Some(get(arg)) ELSE None
    ELSE value

-----------------------------------------------------------------------------
(* OlogDataTypes.py *)

Active == <<"A">>

\* Logbook.__init__(name, owner=None)
Logbook(name, owner) ==
    [Name |-> Strip(name), Owner |-> Strip(StrOpt(owner))]

\* Tag.__init__(name, state="Active")
Tag(name, state) == [Name |-> Strip(name), State |-> Strip(state)]

\* Property.__init__(name, attributes=None); attributes is an option of a
\* mapping from attribute names to scalars
Property(name, attributes) == [Name |-> Strip(name), Attributes |-> attributes]

\* Attachment.__init__(file, filename=None); a file object is [name, content]
Attachment(file, filename) == [file |-> file, filename |-> filename]

\* os.path.basename of a path given as its components
Basename(path) == IF path = <<>> THEN "" ELSE path[Len(path)]

\* mimetypes.guess_type(basename)[0], by the extension
GuessType(basename) ==
    CASE basename = "photo.jpg" -> Some("image/jpeg")
      [] basename = "plot.png" -> Some("image/png")
      [] OTHER -> None

\* Attachment.getFilePost()
getFilePost(a) ==
    LET basename == IF a.filename = None THEN Basename(a.file.name)
                    ELSE Basename(a.filename[1])
        guess == GuessType(basename)
        mtype == IF guess = None THEN "application/octet-stream" ELSE guess[1]
    IN  <<basename, a.file, mtype>>

\* [Logbook(n) for n in logbooks.split(',')]
LogbooksFromNames(names) == [i \in 1..Len(names) |-> Logbook(names[i], None)]

\* [Tag(n) for n in tags.split(',')]
TagsFromNames(names) == [i \in 1..Len(names) |-> Tag(names[i], Active)]

\* LogEntry.__init__ with an empty logbook list where no logbook is given
\* and none is configured
LogEntryInitNoLogbookCheck(text, owner, logbooks, tags, attachments, properties, id, createTime, modifyTime) ==
    LET Owner == getValue("username", owner)
        dflLogbooks == getValue("logbooks", None)
        dflTags == getValue("tags", None)
    IN  IF Owner = None THEN Raise("ValueError: You must specify an owner")
        ELSE Ok([Text |-> Strip(FilterPrintable(text)),
                 Owner |-> Owner,
                 logbooks |-> IF logbooks # None THEN logbooks[1]
                              ELSE IF dflLogbooks = None THEN <<>>
                              ELSE LogbooksFromNames(Split(dflLogbooks[1], ",")),
                 tags |-> IF tags = None
                          THEN IF dflTags # None
                               THEN TagsFromNames(Split(dflTags[1], ","))
                               ELSE <<>>
                          ELSE tags[1],
                 attachments |-> IF attachments # None THEN attachments[1]
                                 ELSE <<>>,
                 properties |-> IF properties # None THEN properties[1]
                                ELSE <<>>,
                 _id |-> id,
                 _create_time |-> createTime,
                 _modify_time |-> modifyTime])

\* LogEntry.__init__
LogEntryInit(text, owner, logbooks, tags, attachments, properties, id, createTime, modifyTime) ==
    LET Text == Strip(FilterPrintable(text))
        Owner == getValue("username", owner)
        dflLogbooks == getValue("logbooks", None)
        dflTags == getValue("tags", None)
    IN  IF Owner = None THEN Raise("ValueError: You must specify an owner")
        ELSE IF logbooks = None /\ dflLogbooks = None
        THEN Raise("ValueError: You must specify a logbook")
        ELSE Ok([Text |-> Text,
                 Owner |-> Owner,
                 logbooks |-> IF logbooks = None
                              THEN LogbooksFromNames(Split(dflLogbooks[1], ","))
                              ELSE logbooks[1],
                 tags |-> IF tags = None
                          THEN IF dflTags # None
                               THEN TagsFromNames(Split(dflTags[1], ","))
                               ELSE <<>>
                          ELSE tags[1],
                 attachments |-> IF attachments # None THEN attachments[1]
                                 ELSE <<>>,
                 properties |-> IF properties # None THEN properties[1]
                                ELSE <<>>,
                 _id |-> id,
                 _create_time |-> createTime,
                 _modify_time |-> modifyTime])

-----------------------------------------------------------------------------
(* OlogClient.py: the JSON encoders and decoders.  A decoder returns        *)
(* Ok(object), Ok(None) for an empty dict, or Raise(...) where Python       *)
(* raises (d.pop of a missing key is a KeyError).                           *)

\* the first exception of a list of outcomes, else the list of values
AllOk(rs) == \A i \in 1..Len(rs) : rs[i].ok
FirstRaise(rs) == rs[CHOOSE i \in 1..Len(rs) :
                        ~rs[i].ok /\ \A j \in 1..(i - 1) : rs[j].ok]
Collect(rs) == IF AllOk(rs) THEN Ok([i \in 1..Len(rs) |-> rs[i].val])
               ELSE FirstRaise(rs)

\* whether d.pop(k) succeeds for every k of keys
HasKeys(d, keys) == \A i \in 1..Len(keys) : keys[i] \in DOMAIN d

\* PropertyEncoder.default
PropertyEncoder_default(obj) ==
    IF obj.Attributes = None
    THEN Raise("TypeError: 'NoneType' object is not iterable")
    ELSE LET attrs == obj.Attributes[1]
         IN  Ok([name |-> obj.Name,
                 attributes |-> [k \in DOMAIN attrs |-> [s |-> PyStr(attrs[k])]]])

\* PropertyDecoder.dictToProperty
dictToProperty(d) ==
    IF DOMAIN d = {} THEN Ok(None)
    ELSE IF ~HasKeys(d, <<"name", "attributes">>)
    THEN Raise("KeyError")
    ELSE Ok(Property(d.name, Some(d.attributes)))

\* LogbookEncoder.default
LogbookEncoder_default(obj) == Ok([name |-> obj.Name, owner |-> obj.Owner])

\* LogbookDecoder.dictToLogbook
dictToLogbook(d) ==
    IF DOMAIN d = {} THEN Ok(None)
    ELSE IF ~HasKeys(d, <<"name", "owner">>) THEN Raise("KeyError")
    ELSE Ok(Logbook(d.name, Some(d.owner)))

\* TagEncoder.default
TagEncoder_default(obj) == Ok([state |-> obj.State, name |-> obj.Name])

\* dictToTag with the state left at the constructor's default
dictToTagDefaultState(d) ==
    IF DOMAIN d = {} THEN Ok(None)
    ELSE IF ~HasKeys(d, <<"name", "state">>) THEN Raise("KeyError")
    ELSE Ok(Tag(d.name, Active))

\* TagDecoder.dictToTag
dictToTag(d) ==
    IF DOMAIN d = {} THEN Ok(None)
    ELSE IF ~HasKeys(d, <<"name", "state">>) THEN Raise("KeyError")
    ELSE Ok(Tag(d.name, d.state))

\* LogEntryEncoder.default: a one-element list holding the entry's dict
LogEntryEncoder_default(obj) ==
    LET logbooks == Collect([i \in 1..Len(obj.logbooks) |->
                                 LogbookEncoder_default(obj.logbooks[i])])
        tags == Collect([i \in 1..Len(obj.tags) |->
                             TagEncoder_default(obj.tags[i])])
        properties == Collect([i \in 1..Len(obj.properties) |->
                                   PropertyEncoder_default(obj.properties[i])])
    IN  IF ~logbooks.ok THEN logbooks
        ELSE IF ~tags.ok THEN tags
        ELSE IF ~properties.ok THEN properties
        ELSE Ok(<<[description |-> obj.Text,
                   owner |-> obj.Owner,
                   level |-> "Info",
                   logbooks |-> logbooks.val,
                   tags |-> tags.val,
                   properties |-> properties.val]>>)

LogEntryKeys == <<"description", "owner", "logbooks", "tags", "properties",
                  "id", "createdDate", "modifiedDate">>

\* LogEntryDecoder.dictToLogEntry
dictToLogEntry(d) ==
    IF DOMAIN d = {} THEN Ok(None)
    ELSE IF ~HasKeys(d, LogEntryKeys)
    THEN Raise("KeyError")
    ELSE LET logbooks == Collect([i \in 1..Len(d.logbooks) |->
                                      dictToLogbook(d.logbooks[i])])
             tags == Collect([i \in 1..Len(d.tags) |-> dictToTag(d.tags[i])])
             properties == Collect([i \in 1..Len(d.properties) |->
                                        dictToProperty(d.properties[i])])
         IN  IF ~logbooks.ok THEN logbooks
             ELSE IF ~tags.ok THEN tags
             ELSE IF ~properties.ok THEN properties
             ELSE LogEntryInit(d.description, d.owner, Some(logbooks.val),
                               Some(tags.val), None, Some(properties.val),
                               d.id, d.createdDate, d.modifiedDate)

-----------------------------------------------------------------------------
(* The remote service and the HTTP transport (requests.Session).  A call is *)
(* answered with a status; 0 stands for no response at all (requests raises *)
(* ConnectionError).  The service acts on a request only when it answers    *)
(* 200.                                                                     *)

ServerUrl == "http://olog"
OtherUrl == "http://nowhere"

logsResource == "/resources/logs"
propertiesResource == "/resources/properties"
tagsResource == "/resources/tags"
logbooksResource == "/resources/logbooks"
attachmentResource == "/resources/attachments"

\* the statuses the service may answer a request with
Respond(srv, req) ==
    IF req.url # ServerUrl THEN {0}
    ELSE IF req.auth # None /\ req.auth[1] \notin srv.accounts THEN {401}
    ELSE {200, 401}

Statuses == {0, 200, 401}

\* seq without the elements whose field key equals v
Without(seq, key, v) ==
    LET Keep(d) == d[key] # v IN SelectSeq(seq, Keep)

\* create-or-replace of the element named name
Put(seq, name, d) ==
    IF \E i \in 1..Len(seq) : seq[i].name = name
    THEN [i \in 1..Len(seq) |-> IF seq[i].name = name THEN d ELSE seq[i]]
    ELSE Append(seq, d)

Store(resource) ==
    CASE resource = logbooksResource -> "logbooks"
      [] resource = tagsResource -> "tags"
      [] resource = propertiesResource -> "properties"
      [] resource = logsResource -> "logs"
      [] resource = attachmentResource -> "attachments"

Envelope(resource, seq) ==
    CASE resource = logbooksResource -> [logbook |-> seq]
      [] resource = tagsResource -> [tag |-> seq]
      [] resource = propertiesResource -> [property |-> seq]

\* the entry the service stores and returns for a submitted entry dict: the
\* client's fields with the id and the timestamps the service assigns
Stored(d, id, now) ==
    d @@ [id |-> Some(id), createdDate |-> Some(now), modifiedDate |-> Some(now)]

\* what the service does with a request it answers 200, and the body it
\* returns
Handle(srv, req, status) ==
    IF status # 200 THEN [srv |-> srv, json |-> None]
    ELSE CASE req.method = "POST" /\ req.resource = logsResource ->
                LET d == Stored(req.data[1], srv.nextId, srv.nextId)
                IN  [srv |-> [srv EXCEPT !.logs = Append(@, d),
                                         !.nextId = @ + 1],
                     json |-> <<d>>]
           [] req.method = "POST" /\ req.resource = attachmentResource ->
                [srv |-> [srv EXCEPT !.attachments =
                              Append(@, [id |-> req.path[1],
                                         fileName |-> req.files[1],
                                         content |-> req.files[2].content])],
                 json |-> None]
           [] req.method = "PUT" ->
                [srv |-> [srv EXCEPT ![Store(req.resource)] =
                              Put(@, req.path[1], req.data)],
                 json |-> None]
           [] req.method = "DELETE" /\ req.resource = logsResource ->
                [srv |-> [srv EXCEPT !.logs =
                              LET Keep(d) == IntStr(d.id[1]) # req.path[1]
                              IN  SelectSeq(@, Keep)],
                 json |-> None]
           [] req.method = "DELETE" /\ req.resource # logsResource ->
                [srv |-> [srv EXCEPT ![Store(req.resource)] =
                              Without(@, "name", req.path[1])],
                 json |-> None]
           [] req.method = "GET" /\ req.resource = logsResource ->
                [srv |-> srv, json |-> srv.logs]
           [] req.method = "GET" /\ req.resource = attachmentResource
                  /\ Len(req.path) = 1 ->
                LET Mine(a) == a.id = req.path[1]
                    mine == SelectSeq(srv.attachments, Mine)
                IN  [srv |-> srv,
                     json |-> [attachment |->
                                   [i \in 1..Len(mine) |->
                                        [fileName |-> mine[i].fileName]]]]
           [] req.method = "GET" /\ req.resource = attachmentResource
                  /\ Len(req.path) = 2 ->
                LET Mine(a) == a.id = req.path[1] /\ a.fileName = req.path[2]
                    mine == SelectSeq(srv.attachments, Mine)
                IN  [srv |-> srv,
                     json |-> IF mine = <<>> THEN "" ELSE mine[1].content]
           [] OTHER ->
                [srv |-> srv,
                 json |-> Envelope(req.resource, srv[Store(req.resource)])]

\* one HTTP call of an operation in progress: the request goes out, the
\* service answers with the next status of the script
Send(acc, req, script) ==
    LET st == script[Len(acc.calls) + 1]
        h == Handle(acc.srv, req, st)
    IN  [srv |-> h.srv,
         calls |-> Append(acc.calls,
                         [req |-> req, status |-> st, json |-> h.json]),
         valid |-> acc.valid /\ st \in Respond(acc.srv, req),
         resp |-> [status |-> st, json |-> h.json]]

Start(srv) == [srv |-> srv, calls |-> <<>>, valid |-> TRUE, resp |-> None]

\* the outcome of an operation: what it returned or raised, the calls it
\* issued and the service's state after them
Done(acc, result) ==
    [srv |-> acc.srv, calls |-> acc.calls, valid |-> acc.valid,
     result |-> result]

\* requests raises ConnectionError when there is no response
NoResponse(resp) == resp.status = 0

\* Response.raise_for_status(): HTTPError for 4xx and 5xx
raise_for_status(resp) == resp.status >= 400 /\ resp.status < 600

ConnectionError == Raise("ConnectionError")
HTTPError == Raise("HTTPError")

-----------------------------------------------------------------------------
(* OlogClient.py: the client facade.  Each operation is computed against    *)
(* the service state srv and a script of the statuses the service answers   *)
(* with, call after call; it yields Done(...).                              *)

\* one call of requests.Session: session.<method>(url + resource + path, ...)
Req(method, url, resource, path, headers, auth, data, files, query) ==
    [method |-> method, url |-> url, resource |-> resource, path |-> path,
     headers |-> headers, auth |-> auth, data |-> data, files |-> files,
     query |-> query]

jsonheader == [content_type |-> "application/json", accept |-> "application/json"]
NoHeaders == <<>>

\* truth value of a str-or-None
Truthy(o) == o # None /\ o[1] # <<>>

\* getDefaultConfig with the configured value taken whenever there is one
getDefaultConfigConfFirst(arg, value) ==
    IF has_option(arg) THEN Some(get(arg)) ELSE value

\* OlogClient.__getDefaultConfig
getDefaultConfig(arg, value) ==
    IF value = None /\ has_option(arg) THEN Some(get(arg)) ELSE value

\* OlogClient.__init__, lines 77-102: the credentials and the sources asked
\* for the password, in the order they were asked
Credentials(username, password, interactive) ==
    LET u == getDefaultConfig("username", username)
        p0 == getDefaultConfig("password", password)
        missing == Truthy(u) /\ ~Truthy(p0)
        p1 == IF missing /\ env.have_keyring THEN env.keyring_password ELSE p0
        ask == missing /\ p1 = None /\ interactive
        p2 == IF ask THEN Some(env.typed) ELSE p1
    IN  [username |-> u,
         password |-> p2,
         auth |-> IF Truthy(u) /\ Truthy(p2) THEN Some(<<u[1], p2[1]>>)
                  ELSE None,
         asked |-> <<"explicit">>
                   \o (IF password = None THEN <<"config">> ELSE <<>>)
                   \o (IF missing /\ env.have_keyring THEN <<"keyring">>
                       ELSE <<>>)
                   \o (IF ask THEN <<"prompt">> ELSE <<>>)]

\* OlogClient.__init__, lines 104-106: the list-tags read that opens the
\* session
Probe(srv, url, script) ==
    IF url = None THEN Done(Start(srv), Raise("TypeError"))
    ELSE LET a == Send(Start(srv),
                       Req("GET", url[1], tagsResource, <<>>, jsonheader,
                           None, None, None, None),
                       script)
         IN  IF NoResponse(a.resp) THEN Done(a, ConnectionError)
             ELSE IF raise_for_status(a.resp) THEN Done(a, HTTPError)
             ELSE Done(a, Ok(None))

\* str(id) of LogEntry.getId()
IdStr(id) == IF id = None THEN <<"N", "o", "n", "e">> ELSE IntStr(id[1])

\* OlogClient.log, lines 132-138: the attachments from the k-th on
RECURSIVE Uploads(_, _, _, _, _, _)

\* Uploads with the loop left after its first round
UploadsOnlyFirst(c, attachments, id, script, acc, k) ==
    IF k > Len(attachments) \/ k > 1 THEN Done(acc, Ok(None))
    ELSE LET a == Send(acc,
                       Req("POST", c.url, attachmentResource, <<id>>,
                           NoHeaders, c.auth, None,
                           getFilePost(attachments[k]), None),
                       script)
         IN  IF NoResponse(a.resp) THEN Done(a, ConnectionError)
             ELSE IF raise_for_status(a.resp) THEN Done(a, HTTPError)
             ELSE Uploads(c, attachments, id, script, a, k + 1)

\* Uploads with the status of an upload never looked at
UploadsUnchecked(c, attachments, id, script, acc, k) ==
    IF k > Len(attachments) THEN Done(acc, Ok(None))
    ELSE LET a == Send(acc,
                       Req("POST", c.url, attachmentResource, <<id>>,
                           NoHeaders, c.auth, None,
                           getFilePost(attachments[k]), None),
                       script)
         IN  IF NoResponse(a.resp) THEN Done(a, ConnectionError)
             ELSE Uploads(c, attachments, id, script, a, k + 1)

Uploads(c, attachments, id, script, acc, k) ==
    IF k > Len(attachments) THEN Done(acc, Ok(None))
    ELSE LET a == Send(acc,
                       Req("POST", c.url, attachmentResource, <<id>>,
                           NoHeaders, c.auth, None,
                           getFilePost(attachments[k]), None),
                       script)
         IN  IF NoResponse(a.resp) THEN Done(a, ConnectionError)
             ELSE IF raise_for_status(a.resp) THEN Done(a, HTTPError)
             ELSE Uploads(c, attachments, id, script, a, k + 1)

\* OlogClient.log
log(c, srv, logEntry, script) ==
    LET data == LogEntryEncoder_default(logEntry)
    IN  IF ~data.ok THEN Done(Start(srv), data)
        ELSE
        LET a == Send(Start(srv),
                      Req("POST", c.url, logsResource, <<>>, jsonheader,
                          c.auth, data.val, None, None),
                      script)
        IN  IF NoResponse(a.resp) THEN Done(a, ConnectionError)
            ELSE IF raise_for_status(a.resp) THEN Done(a, HTTPError)
            ELSE LET created == dictToLogEntry(a.resp.json[1])
                 IN  IF ~created.ok THEN Done(a, created)
                     ELSE IF created.val = None
                     THEN Done(a, Raise("AttributeError"))
                     ELSE Uploads(c, logEntry.attachments,
                                  IdStr(created.val._id), script, a, 1)

\* OlogClient.createLogbook / createTag / createProperty: one PUT
Create(c, srv, resource, name, data, script) ==
    IF ~data.ok THEN Done(Start(srv), data)
    ELSE LET a == Send(Start(srv),
                       Req("PUT", c.url, resource, <<name>>, jsonheader,
                           c.auth, data.val, None, None),
                       script)
         IN  IF NoResponse(a.resp) THEN Done(a, ConnectionError)
             ELSE IF raise_for_status(a.resp) THEN Done(a, HTTPError)
             ELSE Done(a, Ok(None))

createLogbook(c, srv, logbook, script) ==
    Create(c, srv, logbooksResource, logbook.Name,
           LogbookEncoder_default(logbook), script)

createTag(c, srv, tag, script) ==
    Create(c, srv, tagsResource, tag.Name, TagEncoder_default(tag), script)

createProperty(c, srv, property, script) ==
    Create(c, srv, propertiesResource, property.Name,
           PropertyEncoder_default(property), script)

\* urllib.quote_plus over the alphabet used here
QuotePlus(s) == [i \in 1..Len(s) |-> IF s[i] = " " THEN "+" ELSE s[i]]

\* urlencode(OrderedDict(kwds)): the pairs key=value, in the mapping's order
urlencode(kwds) ==
    [i \in 1..Len(kwds) |-> <<QuotePlus(kwds[i][1]), QuotePlus(PyStr(kwds[i][2]))>>]

\* find with only the first criterion in the query string
findFirstCriterion(c, srv, kwds, script) ==
    LET a == Send(Start(srv),
                  Req("GET", c.url, logsResource, <<>>, jsonheader, c.auth,
                      None, None,
                      Some(urlencode(SubSeq(kwds, 1, IF kwds = <<>> THEN 0 ELSE 1)))),
                  script)
    IN  IF NoResponse(a.resp) THEN Done(a, ConnectionError)
        ELSE IF raise_for_status(a.resp) THEN Done(a, HTTPError)
        ELSE Done(a, Collect([i \in 1..Len(a.resp.json) |->
                                  dictToLogEntry(a.resp.json[i])]))

\* OlogClient.find
find(c, srv, kwds, script) ==
    LET a == Send(Start(srv),
                  Req("GET", c.url, logsResource, <<>>, jsonheader, c.auth,
                      None, None, Some(urlencode(kwds))),
                  script)
    IN  IF NoResponse(a.resp) THEN Done(a, ConnectionError)
        ELSE IF raise_for_status(a.resp) THEN Done(a, HTTPError)
        ELSE Done(a, Collect([i \in 1..Len(a.resp.json) |->
                                  dictToLogEntry(a.resp.json[i])]))

\* OlogClient.listAttachments, lines 230-240: the downloads from the k-th on
RECURSIVE Downloads(_, _, _, _, _, _, _)
Downloads(c, logEntryId, listed, script, acc, k, attachments) ==
    IF k > Len(listed) THEN Done(acc, Ok(attachments))
    ELSE LET fileName == listed[k].fileName
             a == Send(acc,
                       Req("GET", c.url, attachmentResource,
                           <<IntStr(logEntryId), fileName>>, NoHeaders, None,
                           None, None, None),
                       script)
         IN  IF NoResponse(a.resp) THEN Done(a, ConnectionError)
             ELSE Downloads(c, logEntryId, listed, script, a, k + 1,
                            Append(attachments,
                                   Attachment([name |-> <<fileName>>,
                                               content |-> a.resp.json],
                                              None)))

\* OlogClient.listAttachments
listAttachments(c, srv, logEntryId, script) ==
    LET a == Send(Start(srv),
                  Req("GET", c.url, attachmentResource,
                      <<IntStr(logEntryId)>>, jsonheader, None, None, None,
                      None),
                  script)
    IN  IF NoResponse(a.resp) THEN Done(a, ConnectionError)
        ELSE IF raise_for_status(a.resp) THEN Done(a, HTTPError)
        ELSE Downloads(c, logEntryId, a.resp.json.attachment, script, a, 1,
                       <<>>)

\* OlogClient.listTags / listLogbooks / listProperties: one GET, then the
\* envelope's list decoded
List(c, srv, resource, script) ==
    LET a == Send(Start(srv),
                  Req("GET", c.url, resource, <<>>, jsonheader, c.auth, None,
                      None, None),
                  script)
    IN  IF NoResponse(a.resp) THEN Done(a, ConnectionError)
        ELSE IF raise_for_status(a.resp) THEN Done(a, HTTPError)
        ELSE Done(a, Ok(a.resp.json))

listTags(c, srv, script) ==
    LET r == List(c, srv, tagsResource, script)
    IN  IF ~r.result.ok THEN r
        ELSE [r EXCEPT !.result =
                  Collect([i \in 1..Len(r.result.val.tag) |->
                               dictToTag(r.result.val.tag[i])])]

listLogbooks(c, srv, script) ==
    LET r == List(c, srv, logbooksResource, script)
    IN  IF ~r.result.ok THEN r
        ELSE [r EXCEPT !.result =
                  Collect([i \in 1..Len(r.result.val.logbook) |->
                               dictToLogbook(r.result.val.logbook[i])])]

listProperties(c, srv, script) ==
    LET r == List(c, srv, propertiesResource, script)
    IN  IF ~r.result.ok THEN r
        ELSE [r EXCEPT !.result =
                  Collect([i \in 1..Len(r.result.val.property) |->
                               dictToProperty(r.result.val.property[i])])]

\* one DELETE
DeleteCall(c, srv, resource, segment, data, script) ==
    LET a == Send(Start(srv),
                  Req("DELETE", c.url, resource, <<segment>>, jsonheader,
                      c.auth, data, None, None),
                  script)
    IN  IF NoResponse(a.resp) THEN Done(a, ConnectionError)
        ELSE IF raise_for_status(a.resp) THEN Done(a, HTTPError)
        ELSE Done(a, Ok(None))

\* handleSingleDeleteParameter with the names and ids used as given
handleSingleUntrimmed(c, srv, kwds, script) ==
    IF "logbookName" \in DOMAIN kwds
    THEN DeleteCall(c, srv, logbooksResource, kwds.logbookName.s, None, script)
    ELSE IF "tagName" \in DOMAIN kwds
    THEN DeleteCall(c, srv, tagsResource, kwds.tagName.s, None, script)
    ELSE IF "propertyName" \in DOMAIN kwds
    THEN DeleteCall(c, srv, propertiesResource, kwds.propertyName.s,
                    PropertyEncoder_default(
                        Property(kwds.propertyName.s, Some(<<>>))).val,
                    script)
    ELSE IF "logEntryId" \in DOMAIN kwds
    THEN DeleteCall(c, srv, logsResource, PyStr(kwds.logEntryId), None, script)
    ELSE Done(Start(srv), Raise("Exception: unkown key"))

\* OlogClient.__handleSingleDeleteParameter; kwds maps keyword names to
\* scalars
handleSingleDeleteParameter(c, srv, kwds, script) ==
    IF "logbookName" \in DOMAIN kwds
    THEN DeleteCall(c, srv, logbooksResource, Strip(kwds.logbookName.s),
                    None, script)
    ELSE IF "tagName" \in DOMAIN kwds
    THEN DeleteCall(c, srv, tagsResource, Strip(kwds.tagName.s), None, script)
    ELSE IF "propertyName" \in DOMAIN kwds
    THEN DeleteCall(c, srv, propertiesResource, Strip(kwds.propertyName.s),
                    PropertyEncoder_default(
                        Property(Strip(kwds.propertyName.s), Some(<<>>))).val,
                    script)
    ELSE IF "logEntryId" \in DOMAIN kwds
    THEN DeleteCall(c, srv, logsResource, Strip(PyStr(kwds.logEntryId)), None,
                    script)
    ELSE Done(Start(srv), Raise("Exception: unkown key"))

\* delete with any non-empty set of criteria let through
deleteAtLeastOne(c, srv, kwds, script) ==
    IF Cardinality(DOMAIN kwds) >= 1
    THEN handleSingleDeleteParameter(c, srv, kwds, script)
    ELSE Done(Start(srv), Raise("Exception: incorrect usage"))

\* OlogClient.delete
delete(c, srv, kwds, script) ==
    IF Cardinality(DOMAIN kwds) = 1
    THEN handleSingleDeleteParameter(c, srv, kwds, script)
    ELSE Done(Start(srv), Raise("Exception: incorrect usage"))

-----------------------------------------------------------------------------
(* The state machine. *)

UserName == <<"u">>
GoodPassword == <<"p">>
BadPassword == <<"x">>
OwnerName == <<"o">>

\* the scripts of service answers for an operation of at most n calls
Scripts(n) == [1..n -> Statuses]

\* the answers a script holds beyond the calls issued are never given: one
\* script stands for all that agree on the calls issued
Canonical(script, r) ==
    \A i \in (Len(r.calls) + 1)..Len(script) : script[i] = 200

NoClient == [state |-> "none"]
NoOp == [name |-> "none", n |-> 0, arg |-> None, calls |-> <<>>,
         result |-> Ok(None)]

ServerInit ==
    [accounts |-> {<<UserName, GoodPassword>>}, nextId |-> 1, logs |-> <<>>,
     attachments |-> <<>>, logbooks |-> <<>>, tags |-> <<>>,
     properties |-> <<>>]

\* client = OlogClient(url, username, password, interactive)
NewClient(a) ==
    /\ client.state = "none"
    /\ LET cr == Credentials(a.username, a.password, a.interactive)
           url == getDefaultConfig("url", a.url)
       IN  \E script \in Scripts(1) :
               LET r == Probe(server, url, script)
               IN  /\ r.valid
                   /\ Canonical(script, r)
                   /\ client' = [state |-> IF r.result.ok THEN "ready"
                                           ELSE "aborted",
                                 url |-> IF url = None THEN "" ELSE url[1],
                                 auth |-> cr.auth,
                                 args |-> a,
                                 asked |-> cr.asked,
                                 calls |-> r.calls,
                                 result |-> r.result]
                   /\ server' = r.srv
    /\ UNCHANGED <<conf, env, entry, op>>

\* entry = LogEntry(text, owner, logbooks, tags, attachments, properties)
NewLogEntry(a) ==
    /\ entry = None
    /\ op.n < MaxOps
    /\ entry' = [args |-> a,
                 result |-> LogEntryInit(a.text, a.owner, a.logbooks, a.tags,
                                         a.attachments, a.properties,
                                         None, None, None)]
    /\ UNCHANGED <<conf, env, server, client, op>>

\* A client exists and the run is within its bound.  The operations other
\* than log do not read entry: they are taken with no entry pending, which
\* leaves out only interleavings that commute.
Ready == client.state = "ready" /\ op.n < MaxOps

\* the operation's outcome becomes the last operation
Finish(name, arg, script, r) ==
    /\ r.valid
    /\ Canonical(script, r)
    /\ server' = r.srv
    /\ op' = [name |-> name, n |-> op.n + 1, arg |-> arg, calls |-> r.calls,
              result |-> r.result]
    /\ UNCHANGED <<conf, env, client>>

\* client.log(entry)
Log ==
    /\ Ready
    /\ entry # None
    /\ entry.result.ok
    /\ \E script \in Scripts(1 + MaxAttachments) :
           Finish("log", entry, script,
                  log(client, server, entry.result.val, script))
    /\ entry' = None

CreateLogbook(logbook) ==
    /\ Ready /\ entry = None
    /\ \E script \in Scripts(1) :
           Finish("createLogbook", logbook, script,
                  createLogbook(client, server, logbook, script))
    /\ UNCHANGED entry

CreateTag(tag) ==
    /\ Ready /\ entry = None
    /\ \E script \in Scripts(1) :
           Finish("createTag", tag, script,
                  createTag(client, server, tag, script))
    /\ UNCHANGED entry

CreateProperty(property) ==
    /\ Ready /\ entry = None
    /\ \E script \in Scripts(1) :
           Finish("createProperty", property, script,
                  createProperty(client, server, property, script))
    /\ UNCHANGED entry

Find(kwds) ==
    /\ Ready /\ entry = None
    /\ \E script \in Scripts(1) :
           Finish("find", kwds, script, find(client, server, kwds, script))
    /\ UNCHANGED entry

ListAttachments(logEntryId) ==
    /\ Ready /\ entry = None
    /\ \E script \in Scripts(1 + MaxAttachments) :
           Finish("listAttachments", logEntryId, script,
                  listAttachments(client, server, logEntryId, script))
    /\ UNCHANGED entry

ListTags ==
    /\ Ready /\ entry = None
    /\ \E script \in Scripts(1) :
           Finish("listTags", None, script, listTags(client, server, script))
    /\ UNCHANGED entry

ListLogbooks ==
    /\ Ready /\ entry = None
    /\ \E script \in Scripts(1) :
           Finish("listLogbooks", None, script,
                  listLogbooks(client, server, script))
    /\ UNCHANGED entry

ListProperties ==
    /\ Ready /\ entry = None
    /\ \E script \in Scripts(1) :
           Finish("listProperties", None, script,
                  listProperties(client, server, script))
    /\ UNCHANGED entry

Delete(kwds) ==
    /\ Ready /\ entry = None
    /\ \E script \in Scripts(1) :
           Finish("delete", kwds, script,
                  delete(client, server, kwds, script))
    /\ UNCHANGED entry

-----------------------------------------------------------------------------
(* The inputs of the client specification. *)

File1 == [name |-> <<"tmp", "photo.jpg">>, content |-> "c1"]
File2 == [name |-> <<"data.xyz">>, content |-> "c2"]
Attachment1 == Attachment(File1, None)
Attachment2 == Attachment(File2, Some(<<"plot.png">>))

\* attachment lists of every length up to MaxAttachments
AttachmentLists ==
    {[i \in 1..n |-> IF i % 2 = 1 THEN Attachment1 ELSE Attachment2] :
         n \in 0..MaxAttachments}

Logbooks == {Logbook(<<"a">>, Some(OwnerName)), Logbook(<<"a">>, None)}
Tags == {Tag(<<"a">>, Active)}
Properties ==
    {Property(<<"a">>, Some([k \in {<<"k">>} |-> [i |-> 7]])),
     Property(<<"a">>, None)}

Confs ==
    {[url |-> Some(ServerUrl), username |-> None, password |-> None,
      logbooks |-> None, tags |-> None],
     [url |-> Some(ServerUrl), username |-> Some(UserName),
      password |-> None, logbooks |-> Some(<<"a">>), tags |-> Some(<<"a">>)]}

ClientArgs ==
    {[url |-> None, username |-> None, password |-> None,
      interactive |-> FALSE],
     [url |-> None, username |-> Some(UserName),
      password |-> Some(GoodPassword), interactive |-> FALSE]}

EntryArgs ==
    [text : {<<"a">>}, owner : {Some(OwnerName)},
     logbooks : {None, Some(<<>>), Some(<<Logbook(<<"a">>, Some(OwnerName))>>)},
     tags : {None}, properties : {None},
     attachments : {Some(s) : s \in AttachmentLists}]

FindKwds ==
    {<<>>,
     <<<<<<"t", "a", "g">>, [s |-> <<"a", " ", "b">>]>>,
       <<<<"e", "n", "d">>, [i |-> 12]>>>>}

DeleteKwds ==
    {<<>>,
     [logEntryId |-> [i |-> 1]],
     [logEntryId |-> [s |-> <<"1", " ">>]],
     [logbookName |-> [s |-> <<" ", "a", " ">>]],
     [tagName |-> [s |-> <<"a">>]],
     [propertyName |-> [s |-> <<"a", " ">>]],
     [other |-> [s |-> <<"a">>]],
     [logbookName |-> [s |-> <<"a">>], tagName |-> [s |-> <<"a">>]],
     [logEntryId |-> [i |-> 1], other |-> [s |-> <<"a">>]]}

Init ==
    /\ conf \in Confs
    /\ env = [have_keyring |-> FALSE, keyring_password |-> None,
              typed |-> <<>>]
    /\ server = ServerInit
    /\ client = NoClient
    /\ entry = None
    /\ op = NoOp

Next ==
    \/ \E a \in ClientArgs : NewClient(a)
    \/ \E a \in EntryArgs : NewLogEntry(a)
    \/ Log
    \/ \E logbook \in Logbooks : CreateLogbook(logbook)
    \/ \E tag \in Tags : CreateTag(tag)
    \/ \E property \in Properties : CreateProperty(property)
    \/ \E kwds \in FindKwds : Find(kwds)
    \/ \E id \in 1..MaxOps : ListAttachments(id)
    \/ ListTags
    \/ ListLogbooks
    \/ ListProperties
    \/ \E kwds \in DeleteKwds : Delete(kwds)

Spec == Init /\ [][Next]_vars

-----------------------------------------------------------------------------
(* find on its own, against a service that already holds entries, over the  *)
(* mappings of up to MaxCriteria search parameters.                         *)

\* the search parameters of find's docstring: name and value
SearchParameters ==
    <<<<<<"s", "e", "a", "r", "c", "h">>, [s |-> <<"a", " ", "b">>]>>,
      <<<<"t", "a", "g">>, [s |-> <<"a">>]>>,
      <<<<"s", "t", "a", "r", "t">>, [i |-> 12]>>>>

\* the sequences of at most n distinct elements of 1..m
Arrangements(m, n) ==
    {q \in SeqsUpTo(1..m, n) :
         \A i, j \in 1..Len(q) : i # j => q[i] # q[j]}

\* find(**kwds): mappings of distinct parameter names, in every order
FindCriteria ==
    {[i \in 1..Len(q) |-> SearchParameters[q[i]]] :
         q \in Arrangements(Len(SearchParameters), MaxCriteria)}

\* what the service holds for the entry it stored under id
FoundEntry(id) ==
    Stored(LogEntryEncoder_default(
               LogEntryInit(<<"a">>, Some(OwnerName),
                            Some(<<Logbook(<<"a">>, Some(OwnerName))>>),
                            None, None, None, None, None, None).val).val[1],
           id, id)

InitFind ==
    /\ conf \in Confs
    /\ env = [have_keyring |-> FALSE, keyring_password |-> None,
              typed |-> <<>>]
    /\ \E q \in Arrangements(MaxFound, MaxFound) :
           server = [ServerInit EXCEPT
                         !.nextId = MaxFound + 1,
                         !.logs = [i \in 1..Len(q) |-> FoundEntry(q[i])]]
    /\ client = NoClient
    /\ entry = None
    /\ op = NoOp

NextFind ==
    \/ \E a \in ClientArgs : NewClient(a)
    \/ \E kwds \in FindCriteria : Find(kwds)

SpecFind == InitFind /\ [][NextFind]_vars

-----------------------------------------------------------------------------
(* Client construction on its own, over every combination of the credential *)
(* sources.                                                                 *)

ConfUserName == <<"v">>
ConfPassword == <<"c">>
KeyringPassword == <<"k">>
TypedPassword == <<"t">>

AuthConfs ==
    [url : {None, Some(ServerUrl)},
     username : {None, Some(<<>>), Some(ConfUserName)},
     password : {None, Some(<<>>), Some(ConfPassword)},
     logbooks : {None}, tags : {None}]

AuthEnvs ==
    [have_keyring : BOOLEAN,
     keyring_password : {None, Some(<<>>), Some(KeyringPassword)},
     typed : {<<>>, TypedPassword}]

AuthArgs ==
    [url : {None, Some(ServerUrl), Some(OtherUrl)},
     username : {None, Some(<<>>), Some(UserName)},
     password : {None, Some(<<>>), Some(GoodPassword)},
     interactive : BOOLEAN]

InitAuth ==
    /\ conf \in AuthConfs
    /\ env \in AuthEnvs
    /\ server = ServerInit
    /\ client = NoClient
    /\ entry = None
    /\ op = NoOp

NextAuth == \E a \in AuthArgs : NewClient(a)

SpecAuth == InitAuth /\ [][NextAuth]_vars

-----------------------------------------------------------------------------
(* LogEntry construction and the codec on their own, over every             *)
(* combination of the constructor arguments and the configured defaults.    *)

\* decode(encode(entry)): the decoder applied to the dict the encoder built
DecodeEncoded ==
    /\ entry # None
    /\ entry.result.ok
    /\ op.name = "none"
    /\ LET data == LogEntryEncoder_default(entry.result.val)
       IN  op' = [name |-> "decodeEncoded", n |-> op.n + 1, arg |-> entry,
                  calls |-> <<>>,
                  result |-> IF data.ok THEN dictToLogEntry(data.val[1])
                             ELSE data]
    /\ UNCHANGED <<conf, env, server, client, entry>>

\* the decoder applied to what the service returns for the encoded entry, as
\* in log()
DecodeStored ==
    /\ entry # None
    /\ entry.result.ok
    /\ op.name = "none"
    /\ LET data == LogEntryEncoder_default(entry.result.val)
       IN  op' = [name |-> "decodeStored", n |-> op.n + 1, arg |-> entry,
                  calls |-> <<>>,
                  result |-> IF data.ok
                             THEN dictToLogEntry(
                                      Stored(data.val[1], server.nextId,
                                             server.nextId))
                             ELSE data]
    /\ UNCHANGED <<conf, env, server, client, entry>>

ConfChars == {"a", ",", " "}

EntryConfs ==
    [url : {None}, username : {None, Some(UserName)}, password : {None},
     logbooks : Opt(SeqsUpTo(ConfChars, MaxConfLen)), tags : {None}]

LogbookLists ==
    {[i \in 1..n |-> IF i % 2 = 1 THEN Logbook(<<" ", "b">>, None)
                     ELSE Logbook(<<"a">>, Some(OwnerName))] :
         n \in 0..MaxLogbooks}

AllEntryArgs ==
    [text : SeqsUpTo(TextChars, MaxTextLen),
     owner : {None, Some(OwnerName)},
     logbooks : Opt(LogbookLists),
     tags : {None, Some(<<Tag(<<"a", " ">>, <<"I">>)>>)},
     properties : {None,
                   Some(<<Property(<<"a">>,
                                   Some([k \in {<<"k">>} |-> [i |-> 7]]))>>),
                   Some(<<Property(<<"a">>, None)>>)},
     attachments : {None}]

InitEntry ==
    /\ conf \in EntryConfs
    /\ env = [have_keyring |-> FALSE, keyring_password |-> None,
              typed |-> <<>>]
    /\ server = ServerInit
    /\ client = NoClient
    /\ entry = None
    /\ op = NoOp

NextEntry ==
    \/ \E a \in AllEntryArgs : NewLogEntry(a)
    \/ DecodeEncoded
    \/ DecodeStored

SpecEntry == InitEntry /\ [][NextEntry]_vars

-----------------------------------------------------------------------------
(* Properties of the client operations. *)

IsCreate(call) ==
    /\ call.req.method = "POST"
    /\ call.req.resource = logsResource
    /\ call.req.path = <<>>

IsUpload(call) ==
    /\ call.req.method = "POST"
    /\ call.req.resource = attachmentResource

\* the id the service assigned in the response to the create call
CreatedId(calls) == IntStr(calls[1].json[1].id[1])

LoggedAttachments == op.arg.result.val.attachments

\* C1: a log(entry) whose responses are all successes issues exactly 1 + N
\* calls: the create POST to the logs resource first, then one upload POST per
\* attachment in the list's order, each addressed to the attachment resource
\* under the id of the create response; no upload precedes a successful
\* create.
C1_LogCallSequence ==
    op.name = "log" =>
        /\ (\A i \in 1..Len(op.calls) : op.calls[i].status = 200) =>
               /\ Len(op.calls) = 1 + Len(LoggedAttachments)
               /\ IsCreate(op.calls[1])
               /\ \A k \in 1..Len(LoggedAttachments) :
                      /\ IsUpload(op.calls[k + 1])
                      /\ op.calls[k + 1].req.path = <<CreatedId(op.calls)>>
                      /\ op.calls[k + 1].req.files =
                             getFilePost(LoggedAttachments[k])
        /\ \A i \in 1..Len(op.calls) :
               IsUpload(op.calls[i]) =>
                   /\ i > 1
                   /\ IsCreate(op.calls[1])
                   /\ op.calls[1].status = 200
                   /\ op.calls[i].req.path = <<CreatedId(op.calls)>>

C1_Witness ==
    /\ op.name = "log"
    /\ Len(LoggedAttachments) = 2
    /\ Len(op.calls) = 3
    /\ \A i \in 1..3 : op.calls[i].status = 200
    /\ op.result.ok

\* C2: in every public operation a call answered with a non-2xx status is the
\* operation's last call and the operation raises an HTTP status error.
C2_NonSuccessRaises ==
    op.name # "none" =>
        \A i \in 1..Len(op.calls) :
            op.calls[i].status \notin 200..299 =>
                /\ i = Len(op.calls)
                /\ op.result = HTTPError

\* Outside the downloads of listAttachments the statement of C2 holds: a call
\* answered with a non-2xx status ends its operation with the HTTP status
\* error.
NonSuccessRaisesOutsideDownloads ==
    op.name # "none" =>
        \A i \in 1..Len(op.calls) :
            (/\ op.calls[i].status \notin 200..299
             /\ ~(op.name = "listAttachments" /\ i > 1)) =>
                /\ i = Len(op.calls)
                /\ op.result = HTTPError

\* the file names the service holds under the id
ServerFilesOf(id) ==
    LET Mine(a) == a.id = id
        mine == SelectSeq(server.attachments, Mine)
    IN  [i \in 1..Len(mine) |-> mine[i].fileName]

\* C3: when the upload of a_k is the first call of log(entry) to fail, log
\* raises there; the calls issued are the create and the uploads of a_1..a_k
\* and nothing else; the service holds the entry and a_1..a_(k-1) under its id
\* and none of a_k..a_N.
C3_PartialFailure ==
    (/\ op.name = "log"
     /\ Len(op.calls) >= 2
     /\ op.calls[Len(op.calls)].status # 200) =>
        LET k == Len(op.calls) - 1
        IN  /\ op.result = HTTPError
            /\ k <= Len(LoggedAttachments)
            /\ IsCreate(op.calls[1])
            /\ \A i \in 1..k :
                   /\ IsUpload(op.calls[i + 1])
                   /\ op.calls[i + 1].req.files =
                          getFilePost(LoggedAttachments[i])
                   /\ i < k => op.calls[i + 1].status = 200
            /\ \E i \in 1..Len(server.logs) :
                   IntStr(server.logs[i].id[1]) = CreatedId(op.calls)
            /\ ServerFilesOf(CreatedId(op.calls)) =
                   [i \in 1..(k - 1) |-> getFilePost(LoggedAttachments[i])[1]]

C3_Witness ==
    /\ op.name = "log"
    /\ Len(LoggedAttachments) = 2
    /\ Len(op.calls) = 2
    /\ op.calls[1].status = 200
    /\ op.calls[2].status = 401
    /\ ~op.result.ok

DeleteStep == op'.name = "delete" /\ op'.n = op.n + 1

\* C4: delete with zero criteria or with two or more raises the usage error,
\* issues no call and leaves the service as it was.
C4_DeleteUsage ==
    [][(DeleteStep /\ Cardinality(DOMAIN op'.arg) # 1) =>
           /\ op'.result = Raise("Exception: incorrect usage")
           /\ op'.calls = <<>>
           /\ server' = server]_vars

C4_Witness ==
    /\ op.name = "delete"
    /\ Cardinality(DOMAIN op.arg) = 2
    /\ op.result = Raise("Exception: incorrect usage")

\* t is s without its leading and trailing whitespace
IsTrimOf(t, s) ==
    /\ t # <<>> => Head(t) \notin Whitespace /\ t[Len(t)] \notin Whitespace
    /\ \E i \in 0..Len(s) :
           /\ i + Len(t) <= Len(s)
           /\ SubSeq(s, i + 1, i + Len(t)) = t
           /\ \A j \in (1..i) \cup ((i + Len(t) + 1)..Len(s)) :
                  s[j] \in Whitespace

DeleteResource(key) ==
    CASE key = "logEntryId" -> "/resources/logs"
      [] key = "logbookName" -> "/resources/logbooks"
      [] key = "tagName" -> "/resources/tags"
      [] key = "propertyName" -> "/resources/properties"

DeleteKinds == {"logEntryId", "logbookName", "tagName", "propertyName"}

\* C5: delete with exactly one criterion of a known kind issues exactly one
\* DELETE, to the resource of that kind, with the trimmed name or id as the
\* last path segment; with one criterion of another kind it raises and issues
\* no call.
C5_DeleteSingle ==
    (op.name = "delete" /\ Cardinality(DOMAIN op.arg) = 1) =>
        LET key == CHOOSE k \in DOMAIN op.arg : TRUE
        IN  IF key \in DeleteKinds
            THEN /\ Len(op.calls) = 1
                 /\ op.calls[1].req.method = "DELETE"
                 /\ op.calls[1].req.resource = DeleteResource(key)
                 /\ Len(op.calls[1].req.path) = 1
                 /\ IsTrimOf(op.calls[1].req.path[1], PyStr(op.arg[key]))
            ELSE /\ ~op.result.ok
                 /\ op.calls = <<>>

C5_Witness ==
    /\ op.name = "delete"
    /\ DOMAIN op.arg = {"logbookName"}
    /\ op.arg.logbookName.s = <<" ", "a", " ">>
    /\ Len(op.calls) = 1
    /\ op.calls[1].req.path = <<<<"a">>>>
    /\ op.calls[1].status = 200

\* C10: every create request of log() carries an owner and at least one
\* logbook.
C10_SubmittedHasOwnerAndLogbook ==
    (op.name = "log" /\ Len(op.calls) >= 1) =>
        /\ op.calls[1].req.data[1].owner # None
        /\ op.calls[1].req.data[1].logbooks # <<>>

-----------------------------------------------------------------------------
(* Properties of client construction. *)

\* C6: a client object exists only if the list-tags read of its construction
\* succeeded, and never with credentials the service rejects.
C6_ClientOnlyIfProbeAndCredentialsValid ==
    client.state = "ready" =>
        /\ Len(client.calls) = 1
        /\ client.calls[1].req.method = "GET"
        /\ client.calls[1].req.resource = "/resources/tags"
        /\ client.calls[1].status = 200
        /\ client.auth # None => client.auth[1] \in server.accounts

\* the first of a list of optional strings that holds a usable (non-empty)
\* value, and its position (one past the end when there is none)
FirstAt(sources) ==
    IF \E i \in 1..Len(sources) : Truthy(sources[i])
    THEN CHOOSE i \in 1..Len(sources) :
             Truthy(sources[i]) /\ \A j \in 1..(i - 1) : ~Truthy(sources[j])
    ELSE Len(sources) + 1

FirstValue(sources) ==
    IF FirstAt(sources) > Len(sources) THEN None ELSE sources[FirstAt(sources)]

SourceRank(name) ==
    CASE name = "explicit" -> 1
      [] name = "config" -> 2
      [] name = "keyring" -> 3
      [] name = "prompt" -> 4

UsernameSources == <<client.args.username, conf.username>>

PasswordSources ==
    <<client.args.password,
      conf.password,
      IF env.have_keyring THEN env.keyring_password ELSE None,
      IF client.args.interactive THEN Some(env.typed) ELSE None>>

Precedence ==
    LET u == FirstValue(UsernameSources)
        p == FirstValue(PasswordSources)
    IN  /\ client.auth = IF u # None /\ p # None THEN Some(<<u[1], p[1]>>)
                         ELSE None
        /\ \A i \in 1..Len(client.asked) :
               /\ SourceRank(client.asked[i]) <= FirstAt(PasswordSources)
               /\ \A j \in 1..(i - 1) :
                      SourceRank(client.asked[j]) < SourceRank(client.asked[i])
        /\ (\E i \in 1..Len(client.asked) : client.asked[i] = "prompt") =>
               client.args.interactive

\* C7 as stated: the credentials are those of the first source that yields a
\* value, in the order explicit argument, configuration file, keyring, prompt;
\* no source after that one is asked; without a username or a password the
\* client is unauthenticated.
C7_Precedence == client.state = "ready" => Precedence

\* no explicit argument, configured value or keyring entry is an empty string
NoEmptyValue ==
    /\ client.args.username # Some(<<>>)
    /\ client.args.password # Some(<<>>)
    /\ conf.username # Some(<<>>)
    /\ conf.password # Some(<<>>)
    /\ env.keyring_password # Some(<<>>)

\* C7, amended: the precedence holds when no explicit argument, configured
\* value or keyring entry is an empty string.
C7_PrecedenceOfNonEmptyValues ==
    (client.state = "ready" /\ NoEmptyValue) => Precedence

C7_Witness ==
    /\ client.state = "ready"
    /\ NoEmptyValue
    /\ client.args.password = None
    /\ conf.password = None
    /\ conf.username # None
    /\ client.asked = <<"explicit", "config", "keyring">>
    /\ client.auth = Some(<<ConfUserName, KeyringPassword>>)

-----------------------------------------------------------------------------
(* Properties of LogEntry construction and of the codec. *)

Range(f) == {f[i] : i \in DOMAIN f}

LogbookIds(e) == {<<l.Name, l.Owner>> : l \in Range(e.logbooks)}
TagIds(e) == {<<t.Name, t.State>> : t \in Range(e.tags)}
PropertyIds(e) ==
    {<<q.Name, IF q.Attributes = None THEN {} ELSE DOMAIN q.Attributes[1]>> :
         q \in Range(e.properties)}

\* the decoded entry d carries the client-supplied fields of e
SameFields(d, e) ==
    /\ d.Text = e.Text
    /\ d.Owner = e.Owner
    /\ LogbookIds(d) = LogbookIds(e)
    /\ TagIds(d) = TagIds(e)
    /\ PropertyIds(d) = PropertyIds(e)

HasAttributes(e) == \A q \in Range(e.properties) : q.Attributes # None

RECURSIVE NoWhitespace(_)
NoWhitespace(s) ==
    IF s = <<>> THEN <<>>
    ELSE IF Head(s) \in Whitespace THEN NoWhitespace(Tail(s))
    ELSE <<Head(s)>> \o NoWhitespace(Tail(s))

\* the names of logbooks, joined by commas
RECURSIVE JoinNames(_)
JoinNames(logbooks) ==
    IF logbooks = <<>> THEN <<>>
    ELSE IF Len(logbooks) = 1 THEN logbooks[1].Name
    ELSE logbooks[1].Name \o <<",">> \o JoinNames(Tail(logbooks))

\* logbooks are the logbooks named by the comma-separated string s
NamedBy(logbooks, s) ==
    /\ logbooks # <<>>
    /\ \A i \in 1..Len(logbooks) :
           /\ IsTrimOf(logbooks[i].Name, logbooks[i].Name)
           /\ \A j \in 1..Len(logbooks[i].Name) : logbooks[i].Name[j] # ","
    /\ NoWhitespace(JoinNames(logbooks)) = NoWhitespace(s)

\* C9: LogEntry(...) raises the validation error when the owner is omitted
\* and no default owner is configured, and when the logbooks are omitted and
\* no default logbooks are configured; otherwise the entry is built, with the
\* configured default where the argument is omitted and with the argument
\* where it is supplied.
C9_ConstructionDefaults ==
    entry # None =>
        LET a == entry.args
            r == entry.result
        IN  /\ (a.owner = None /\ conf.username = None) =>
                   r = Raise("ValueError: You must specify an owner")
            /\ (a.logbooks = None /\ conf.logbooks = None) => ~r.ok
            /\ (a.logbooks = None /\ conf.logbooks = None
                    /\ ~(a.owner = None /\ conf.username = None)) =>
                   r = Raise("ValueError: You must specify a logbook")
            /\ (~(a.owner = None /\ conf.username = None)
                    /\ ~(a.logbooks = None /\ conf.logbooks = None)) =>
                   /\ r.ok
                   /\ r.val.Owner = IF a.owner = None THEN conf.username
                                    ELSE a.owner
                   /\ IF a.logbooks = None
                      THEN NamedBy(r.val.logbooks, conf.logbooks[1])
                      ELSE r.val.logbooks = a.logbooks[1]

C9_Witness ==
    /\ entry # None
    /\ entry.args.owner = None
    /\ entry.args.logbooks = None
    /\ conf.username = Some(UserName)
    /\ conf.logbooks = Some(<<"a", ",">>)
    /\ entry.result.ok
    /\ entry.result.val.Owner = Some(UserName)
    /\ Len(entry.result.val.logbooks) = 2

-----------------------------------------------------------------------------
(* find. *)

\* urllib.unquote_plus over the alphabet used here
UnquotePlus(s) == [i \in 1..Len(s) |-> IF s[i] = "+" THEN " " ELSE s[i]]

\* the name=value pairs a query string stands for
QueryPairs(q) ==
    {<<UnquotePlus(q[i][1]), UnquotePlus(q[i][2])>> : i \in 1..Len(q)}

\* the name=value pairs of a mapping of search parameters
CriteriaPairs(kwds) == {<<kwds[i][1], PyStr(kwds[i][2])>> : i \in 1..Len(kwds)}

\* the LogEntry e is the decoding of the response element d
DecodedFrom(e, d) ==
    /\ e # None
    /\ e._id = d.id
    /\ e._create_time = d.createdDate
    /\ e._modify_time = d.modifiedDate
    /\ e.Text = d.description
    /\ e.Owner = d.owner
    /\ Len(e.logbooks) = Len(d.logbooks)
    /\ \A i \in 1..Len(d.logbooks) : e.logbooks[i].Name = d.logbooks[i].name
    /\ Len(e.tags) = Len(d.tags)
    /\ \A i \in 1..Len(d.tags) : e.tags[i].Name = d.tags[i].name

\* C11: find(criteria) issues exactly one GET to the logs resource whose
\* query string holds every supplied parameter with its value and no other;
\* answered 200, it returns one decoded LogEntry per element of the response,
\* in the order of the response.
C11_FindOneQuery ==
    op.name = "find" =>
        /\ Len(op.calls) = 1
        /\ LET call == op.calls[1]
           IN  /\ call.req.method = "GET"
               /\ call.req.url = client.url
               /\ call.req.resource = logsResource
               /\ call.req.path = <<>>
               /\ call.req.query # None
               /\ Len(call.req.query[1]) = Len(op.arg)
               /\ QueryPairs(call.req.query[1]) = CriteriaPairs(op.arg)
               /\ call.status = 200 =>
                      /\ op.result.ok
                      /\ Len(op.result.val) = Len(call.json)
                      /\ \A i \in 1..Len(call.json) :
                             DecodedFrom(op.result.val[i], call.json[i])

C11_Witness ==
    /\ op.name = "find"
    /\ Len(op.arg) = 2
    /\ \E i \in 1..2 : op.arg[i][2] = [s |-> <<"a", " ", "b">>]
    /\ op.calls[1].status = 200
    /\ op.result.ok
    /\ Len(op.result.val) = 2
    /\ op.result.val[1]._id = Some(2)
    /\ op.result.val[2]._id = Some(1)

-----------------------------------------------------------------------------
(* createLogbook, createTag, createProperty. *)

CreateOps == {"createLogbook", "createTag", "createProperty"}

CreateResource(name) ==
    CASE name = "createLogbook" -> logbooksResource
      [] name = "createTag" -> tagsResource
      [] name = "createProperty" -> propertiesResource

\* the create operation issued exactly one PUT to the entity's resource with
\* the entity's name as last path segment; answered 200, the service holds
\* exactly one entity of that name, the one sent, and the same call again
\* would leave the service as it is
OnePutByName ==
    /\ Len(op.calls) = 1
    /\ LET call == op.calls[1]
           store == server[Store(CreateResource(op.name))]
       IN  /\ call.req.method = "PUT"
           /\ call.req.url = client.url
           /\ call.req.resource = CreateResource(op.name)
           /\ call.req.path = <<op.arg.Name>>
           /\ call.status = 200 =>
                  /\ op.result.ok
                  /\ Handle(server, call.req, 200).srv = server
                  /\ Cardinality({i \in 1..Len(store) :
                                      store[i].name = op.arg.Name}) = 1
                  /\ \E i \in 1..Len(store) : store[i] = call.req.data

\* C12: createLogbook, createTag and createProperty each issue exactly one
\* PUT addressed by the entity's name, and are idempotent create-or-replace:
\* the same call again leaves the service unchanged, and a create for an
\* existing name replaces that entity rather than adding a second one.
C12_CreateIdempotentPut == op.name \in CreateOps => OnePutByName

\* C12 holds for every entity the encoder accepts: a logbook, a tag, and a
\* property that carries an attribute mapping.
CreateIdempotentPutOfEncodable ==
    (/\ op.name \in CreateOps
     /\ ~(op.name = "createProperty" /\ op.arg.Attributes = None)) =>
        OnePutByName

\* a create answered 200 for a name the service already held
CreateReplaced ==
    /\ op.name = "createLogbook"
    /\ op.n = 2
    /\ op.calls[1].status = 200
    /\ op.arg.Owner = <<"N", "o", "n", "e">>
    /\ server.logbooks = <<op.calls[1].req.data>>

-----------------------------------------------------------------------------
(* Credentials on the wire. *)

\* the client resolved both a username and a password
Authenticated == client.state # "none" /\ client.auth # None

\* C13: every request of a client constructed with usable credentials carries
\* those credentials: the list-tags read of its construction and every call
\* of every operation, the listing and the downloads of listAttachments
\* included.
C13_EveryRequestAuthenticated ==
    Authenticated =>
        /\ \A i \in 1..Len(client.calls) :
               client.calls[i].req.auth = client.auth
        /\ \A i \in 1..Len(op.calls) : op.calls[i].req.auth = client.auth

\* The requests sent without credentials are those of construction and of
\* listAttachments: every call of every other operation carries the client's
\* credentials.
AuthenticatedOutsideProbeAndAttachments ==
    (Authenticated /\ op.name # "listAttachments") =>
        \A i \in 1..Len(op.calls) : op.calls[i].req.auth = client.auth

\* an authenticated client listed an entry's attachments and downloaded one
AttachmentsFetchedUnauthenticated ==
    /\ Authenticated
    /\ op.name = "listAttachments"
    /\ Len(op.calls) = 2
    /\ op.calls[1].req.auth = None
    /\ op.calls[2].req.auth = None

====
